---- MODULE Spec2Model ----
(***************************************************************************)
(* Model of the request core of EsaClient (esa-client.ts): construction,   *)
(* setTeamName, the endpoint methods that hand a verb, a path template, a  *)
(* payload and a team override to request(), and request() itself with its *)
(* two suspension points (the pending fetch and the rate-limit timer).     *)
(*                                                                         *)
(* Strings that the code inspects character by character (the retry-after  *)
(* header) are sequences of one-character strings; paths are sequences of  *)
(* segments; decoded JSON values are records [t, v] with v a sequence of   *)
(* <<key, value>> pairs.                                                   *)
(***************************************************************************)
EXTENDS Integers, Sequences, FiniteSets, TLC

\* ------------------------------------------------------------------ bounds
\* the transport answers at most this many 429 responses to one call
MaxRateLimited == 2
\* retry-after header values are enumerated in full up to this length
MaxHdrLen == 1

\* the calls made on the client
CallIds == {1}

\* ------------------------------------------------------- values and strings
\* JavaScript null / undefined, as far as the code tells them apart
NULL == "<null>"
UNDEF == "<undefined>"

\* operands of `a || b` that select b
Falsy(x) == x \in {NULL, UNDEF, ""}

\* characters a retry-after header value is made of
HdrChars == {"0", "1", "a", "-"}

\* the sequences over S of length at most n
RECURSIVE SeqsUpTo(_, _)
SeqsUpTo(S, n) ==
  IF n = 0 THEN {<<>>}
  ELSE LET shorter == SeqsUpTo(S, n - 1)
       IN  shorter \cup {Append(s, ch) : s \in shorter, ch \in S}

\* what response.headers.get('retry-after') returns: null, or the value
NoHeader == [present |-> FALSE, value |-> <<>>]
\* a delay of 2147484 seconds, the first that exceeds the timer's range
LongDelay == <<"2", "1", "4", "7", "4", "8", "4">>
\* values of each kind parseInt tells apart: several digits, a negative
\* number, digits followed by something else, and the long delay
SampleValues == {<<"1", "0">>, <<"-", "1">>, <<"1", "a">>, LongDelay}
HeaderValues ==
  {NoHeader} \cup {[present |-> TRUE, value |-> s] : s \in SeqsUpTo(HdrChars, MaxHdrLen)}
  \cup {[present |-> TRUE, value |-> s] : s \in SampleValues}

Digits == <<"0", "1", "2", "3", "4", "5", "6", "7", "8", "9">>
IsDigit(ch) == \E i \in 1..10 : Digits[i] = ch
DigitVal(ch) == (CHOOSE i \in 1..10 : Digits[i] = ch) - 1
IsSpace(ch) == ch \in {" ", "\t", "\n"}

\* a JavaScript number as far as parseInt can produce one
NaN == [nan |-> TRUE, n |-> 0]
Num(k) == [nan |-> FALSE, n |-> k]

RECURSIVE SkipSpaces(_)
SkipSpaces(s) ==
  IF s # <<>> /\ IsSpace(Head(s)) THEN SkipSpaces(Tail(s)) ELSE s

\* value of the longest prefix of digits of s, read after acc
RECURSIVE DigitsPrefix(_, _)
DigitsPrefix(s, acc) ==
  IF s # <<>> /\ IsDigit(Head(s))
  THEN DigitsPrefix(Tail(s), acc * 10 + DigitVal(Head(s)))
  ELSE acc

\* parseInt(s, 10): leading white space, an optional sign, then the longest
\* run of decimal digits; NaN when that run is empty
ParseInt(s) ==
  LET t == SkipSpaces(s)
      neg == t # <<>> /\ Head(t) = "-"
      signed == t # <<>> /\ Head(t) \in {"-", "+"}
      u == IF signed THEN Tail(t) ELSE t
  IN  IF u = <<>> \/ ~IsDigit(Head(u)) THEN NaN
      ELSE Num((IF neg THEN -1 ELSE 1) * DigitsPrefix(u, 0))

\* ------------------------------------------------------------ JSON values
JNull == [t |-> "null", v |-> <<>>]
JObj(pairs) == [t |-> "object", v |-> pairs]
EmptyObject == JObj(<<>>)

\* bodies the API answers with
NotFoundBody == JObj(<<<<"error", "not_found">>, <<"message", "Post not found">>>>)
SuccessBody == JObj(<<<<"success", "true">>>>)
JsonBodies == {NotFoundBody, SuccessBody}

\* outcome of response.json(): the decoded value, or a rejection
JsonFails == [ok |-> FALSE, value |-> JNull]
JsonResults == {JsonFails} \cup {[ok |-> TRUE, value |-> b] : b \in JsonBodies}
\* outcome of response.text(): the raw text, or a rejection
TextFails == [ok |-> FALSE, value |-> ""]
TextResults == {TextFails} \cup {[ok |-> TRUE, value |-> t] : t \in {"", "Bad Gateway"}}

\* decoder not invoked on the response
NotDecoded == [ok |-> FALSE, value |-> JNull]
NotRead == [ok |-> FALSE, value |-> ""]

\* status codes the transport answers with
Statuses == {200, 201, 204, 404, 429, 500}

\* a response of the transport: status, headers.get('retry-after'), and what
\* json() and text() yield when they are invoked on it
\* (the parts of a response that its status keeps request() from reading are
\* left at one value: the header of a response that is not 429, the text of a
\* response whose json() succeeds or whose status is 2xx, the body of a 429)
Responses ==
  {[status |-> 429, retryAfter |-> h, json |-> JsonFails, text |-> TextFails] :
     h \in HeaderValues}
  \cup {[status |-> s, retryAfter |-> NoHeader, json |-> j, text |-> TextFails] :
          s \in Statuses \ {429}, j \in JsonResults}
  \cup {[status |-> s, retryAfter |-> NoHeader, json |-> JsonFails, text |-> t] :
          s \in Statuses \ (200..299 \cup {429}), t \in TextResults}

\* variant: success tested as `response.status === 200`
IsOk_Only200(status) == status = 200

\* Response.ok as the transport sets it
IsOk(status) == status \in 200..299

\* -------------------------------------------------------- request payloads
\* JavaScript values met in payloads.  A string is a sequence of atoms: an
\* atom is a run of unreserved characters ("general", "20") or one reserved
\* character (" ", ":", ",", "&", ...)
VUndef == [t |-> "undefined"]
VStr(atoms) == [t |-> "string", s |-> atoms]
VNum(n) == [t |-> "number", n |-> n]
VBool(b) == [t |-> "boolean", b |-> b]
VArr(items) == [t |-> "array", items |-> items]
VObj(entries) == [t |-> "object", entries |-> entries]
VNull == [t |-> "null"]

\* operands of `v ? a : b` that select b
FalsyV(v) ==
  \/ v.t = "undefined"
  \/ v.t = "string" /\ v.s = <<>>
  \/ v.t = "number" /\ v.n = 0
  \/ v.t = "boolean" /\ ~v.b

\* v.toString()
RECURSIVE ToStr(_), JoinStr(_)
JoinStr(items) ==
  IF items = <<>> THEN <<>>
  ELSE ToStr(Head(items))
       \o (IF Tail(items) = <<>> THEN <<>> ELSE <<",">> \o JoinStr(Tail(items)))
ToStr(v) ==
  CASE v.t = "string" -> v.s
    [] v.t = "number" -> <<ToString(v.n)>>
    [] v.t = "boolean" -> <<IF v.b THEN "true" ELSE "false">>
    [] v.t = "array" -> JoinStr(v.items)
    [] OTHER -> <<"[object Object]">>

\* payloads: a plain object, a FormData, or an omitted argument
EmptyParams == [kind |-> "map", entries |-> <<>>]
NoParams == [kind |-> "undefined", entries |-> <<>>]
MapParams(entries) == [kind |-> "map", entries |-> entries]
FormParams(entries) == [kind |-> "form", entries |-> entries]

\* `params || {}` of the verb helpers
OrEmpty(params) == IF params.kind = "undefined" THEN EmptyParams ELSE params

\* a call of request(method, path, params, teamName)
Req(method, path, params, teamName) ==
  [method |-> method, path |-> path, params |-> params, teamName |-> teamName]

get(path, params, teamName) == Req("get", path, OrEmpty(params), teamName)
post(path, params, teamName) == Req("post", path, OrEmpty(params), teamName)
patch(path, params, teamName) == Req("patch", path, OrEmpty(params), teamName)
delete(path, params, teamName) == Req("delete", path, OrEmpty(params), teamName)

\* endpoint methods
getTeams(role) ==
  get(<<"teams">>, IF FalsyV(role) THEN EmptyParams ELSE MapParams(<<<<"role", role>>>>), UNDEF)
getTeam(teamName) == get(<<"teams", ":team_name">>, EmptyParams, teamName)
getMember(screenNameOrEmail, teamName) ==
  get(<<"teams", ":team_name", "members", screenNameOrEmail>>, EmptyParams, teamName)
getPosts(params, teamName) == get(<<"teams", ":team_name", "posts">>, params, teamName)
getPost(postNumber, include, teamName) ==
  get(<<"teams", ":team_name", "posts", ToString(postNumber)>>,
      IF FalsyV(include) THEN EmptyParams ELSE MapParams(<<<<"include", include>>>>),
      teamName)
\* variant: the post parameters sent without the {post: ...} wrapper
createPost_Unwrapped(params, teamName) ==
  post(<<"teams", ":team_name", "posts">>, MapParams(params.entries), teamName)

createPost(params, teamName) ==
  post(<<"teams", ":team_name", "posts">>, MapParams(<<<<"post", params>>>>), teamName)
updatePost(postNumber, params, teamName) ==
  patch(<<"teams", ":team_name", "posts", ToString(postNumber)>>,
        MapParams(<<<<"post", params>>>>), teamName)
deletePost(postNumber, teamName) ==
  delete(<<"teams", ":team_name", "posts", ToString(postNumber)>>, EmptyParams, teamName)
getPostComments(postNumber, options, teamName) ==
  get(<<"teams", ":team_name", "posts", ToString(postNumber), "comments">>, options, teamName)
createComment(postNumber, params, teamName) ==
  post(<<"teams", ":team_name", "posts", ToString(postNumber), "comments">>,
       MapParams(<<<<"comment", params>>>>), teamName)
starComment(commentId, params, teamName) ==
  post(<<"teams", ":team_name", "comments", ToString(commentId), "star">>, params, teamName)
watchPost(postNumber, teamName) ==
  post(<<"teams", ":team_name", "posts", ToString(postNumber), "watch">>, EmptyParams, teamName)

\* encodeURI of one atom: reserved characters of a URI are kept
EncodeURIAtom(a) ==
  CASE a = " " -> "%20"
    [] a = "%" -> "%25"
    [] a = "\"" -> "%22"
    [] a = "[" -> "%5B"
    [] a = "]" -> "%5D"
    [] OTHER -> a
\* the encoded string, "%" an atom of its own
RECURSIVE EncodeURI(_)
EncodeURI(atoms) ==
  IF atoms = <<>> THEN <<>>
  ELSE LET e == EncodeURIAtom(Head(atoms))
       IN  (CASE e = "%20" -> <<"%", "20">>
              [] e = "%25" -> <<"%", "25">>
              [] e = "%22" -> <<"%", "22">>
              [] e = "%5B" -> <<"%", "5B">>
              [] e = "%5D" -> <<"%", "5D">>
              [] OTHER -> <<e>>) \o EncodeURI(Tail(atoms))
searchPosts(searchParams) ==
  get(<<"teams", "docs", "posts">>, MapParams(<<<<"q", VStr(EncodeURI(searchParams))>>>>), UNDEF)

\* the FormData createEmoji fills
EmojiForm(params) ==
  <<<<"emoji[code]", params.code>>>>
  \o (IF FalsyV(params.origin_code) THEN <<>> ELSE <<<<"emoji[origin_code]", params.origin_code>>>>)
  \o (IF FalsyV(params.image) THEN <<>> ELSE <<<<"emoji[image]", params.image>>>>)

TeamRequired == "Error: Team name is required for creating emoji"

\* variant: the team check left out
createEmoji_Unchecked(params, teamName, sessionTeam) ==
  LET team == IF Falsy(teamName) THEN sessionTeam ELSE teamName
  IN  [throws |-> "",
       req |-> Req("post", <<"teams", ":team_name", "emojis">>, FormParams(EmojiForm(params)), team)]

\* createEmoji: the error it throws ("" when none) and the request it makes
createEmoji(params, teamName, sessionTeam) ==
  LET team == IF Falsy(teamName) THEN sessionTeam ELSE teamName
  IN  [throws |-> IF Falsy(team) THEN TeamRequired ELSE "",
       req |-> Req("post", <<"teams", ":team_name", "emojis">>, FormParams(EmojiForm(params)), team)]

\* ------------------------------------------------ building the exchange
baseUrl == <<"https://api.esa.io/v1">>

\* String.prototype.replace with a string pattern: the first occurrence only
RECURSIVE ReplaceFirst(_, _, _)
ReplaceFirst(path, token, by) ==
  IF path = <<>> THEN <<>>
  ELSE IF Head(path) = token THEN <<by>> \o Tail(path)
  ELSE <<Head(path)>> \o ReplaceFirst(Tail(path), token, by)

\* application/x-www-form-urlencoded serialisation of one atom
FormEncodeAtom(a) ==
  CASE a = " " -> "+"
    [] a = "+" -> "%2B"
    [] a = "%" -> "%25"
    [] a = "&" -> "%26"
    [] a = "=" -> "%3D"
    [] a = ":" -> "%3A"
    [] a = "," -> "%2C"
    [] a = "?" -> "%3F"
    [] a = "[" -> "%5B"
    [] a = "]" -> "%5D"
    [] OTHER -> a
FormEncode(atoms) == [i \in DOMAIN atoms |-> FormEncodeAtom(atoms[i])]

\* variant: an undefined value appended as an empty parameter
AppendedParams_EmptyForUndefined(entries) ==
  [k \in DOMAIN entries |->
     <<entries[k][1], IF entries[k][2].t = "undefined" THEN <<>> ELSE ToStr(entries[k][2])>>]

\* the loop over Object.entries(params): every key whose value is not
\* undefined is appended with value.toString()
AppendedParams(entries) ==
  LET present == SelectSeq(entries, LAMBDA e : e[2].t # "undefined")
  IN  [k \in DOMAIN present |-> <<present[k][1], ToStr(present[k][2])>>]

\* URLSearchParams.toString()
RECURSIVE SearchParamsToString(_)
SearchParamsToString(pairs) ==
  IF pairs = <<>> THEN <<>>
  ELSE <<FormEncodeAtom(Head(pairs)[1]), "=">> \o FormEncode(Head(pairs)[2])
       \o (IF Tail(pairs) = <<>> THEN <<>> ELSE <<"&">> \o SearchParamsToString(Tail(pairs)))

\* queryParams.toString() of the parameters appended
QueryString(entries) == SearchParamsToString(AppendedParams(entries))

\* a character of a JSON string literal
JsonEscapeAtom(a) ==
  CASE a = "\"" -> "\\\""
    [] a = "\\" -> "\\\\"
    [] OTHER -> a

\* JSON.stringify: members whose value is undefined are left out, an
\* undefined array element is written null
RECURSIVE JsonStringify(_), JsonMembers(_), JsonItems(_)
JsonMembers(entries) ==
  IF entries = <<>> THEN <<>>
  ELSE LET e == Head(entries)
           rest == JsonMembers(Tail(entries))
       IN  IF e[2].t = "undefined" THEN rest
           ELSE <<"\"", JsonEscapeAtom(e[1]), "\"", ":">> \o JsonStringify(e[2])
                \o (IF rest = <<>> THEN <<>> ELSE <<",">> \o rest)
JsonItems(items) ==
  IF items = <<>> THEN <<>>
  ELSE (IF Head(items).t = "undefined" THEN <<"null">> ELSE JsonStringify(Head(items)))
       \o (IF Tail(items) = <<>> THEN <<>> ELSE <<",">> \o JsonItems(Tail(items)))
JsonStringify(v) ==
  CASE v.t = "string" -> <<"\"">> \o [i \in DOMAIN v.s |-> JsonEscapeAtom(v.s[i])] \o <<"\"">>
    [] v.t = "number" -> <<ToString(v.n)>>
    [] v.t = "boolean" -> <<IF v.b THEN "true" ELSE "false">>
    [] v.t = "array" -> <<"[">> \o JsonItems(v.items) \o <<"]">>
    [] v.t = "null" -> <<"null">>
    [] OTHER -> <<"{">> \o JsonMembers(v.entries) \o <<"}">>

NoBody == [kind |-> "none", content |-> <<>>]
NoQuery == <<>>

\* variant: the session's team preferred to the override
EffectiveTeam_SessionFirst(teamNameArg, sessionTeam) ==
  IF Falsy(sessionTeam) THEN teamNameArg ELSE sessionTeam

\* const team = teamName || this.teamName
EffectiveTeam(teamNameArg, sessionTeam) ==
  IF Falsy(teamNameArg) THEN sessionTeam ELSE teamNameArg

\* variant: without a team the placeholder is taken out of the path
ProcessedPath_DropPlaceholder(path, team) ==
  IF Falsy(team) THEN SelectSeq(path, LAMBDA segment : segment # ":team_name")
  ELSE ReplaceFirst(path, ":team_name", team)

\* variant: every occurrence replaced, path.replaceAll(':team_name', team)
ProcessedPath_ReplaceAll(path, team) ==
  IF Falsy(team) THEN path
  ELSE [i \in DOMAIN path |-> IF path[i] = ":team_name" THEN team ELSE path[i]]

\* const processedPath = team ? path.replace(':team_name', team) : path
ProcessedPath(path, team) ==
  IF Falsy(team) THEN path ELSE ReplaceFirst(path, ":team_name", team)

\* variant: every payload of a GET sent as a query, empty or not
PayloadBranch_QueryWhenGet(method, params) ==
  IF method = "get" /\ params.kind = "map" THEN "query"
  ELSE IF params.kind = "form" THEN "form"
  ELSE IF Len(params.entries) > 0 THEN "json"
  ELSE "none"

\* variant: every plain payload serialised, empty or not
PayloadBranch_AlwaysJson(method, params) ==
  IF method = "get" /\ params.kind = "map" /\ Len(params.entries) > 0 THEN "query"
  ELSE IF params.kind = "form" THEN "form"
  ELSE "json"

\* the if / else-if chain on the verb and the payload; Object.keys of a
\* FormData is empty
PayloadBranch(method, params) ==
  IF method = "get" /\ params.kind = "map" /\ Len(params.entries) > 0 THEN "query"
  ELSE IF params.kind = "form" THEN "form"
  ELSE IF Len(params.entries) > 0 THEN "json"
  ELSE "none"

AuthorizationHeader(sessionToken) == <<"Authorization", <<"Bearer", sessionToken>>>>
ContentTypeJson == <<"Content-Type", <<"application/json">>>>

\* variant: the headers of a multipart exchange started afresh
ExchangeHeaders_FormReset(branch, sessionToken) ==
  IF branch = "form" THEN {} ELSE {AuthorizationHeader(sessionToken), ContentTypeJson}

\* variant: Content-Type kept on a multipart exchange
ExchangeHeaders_KeepContentType(branch, sessionToken) ==
  {AuthorizationHeader(sessionToken), ContentTypeJson}

\* the headers object, Content-Type deleted in the FormData branch
ExchangeHeaders(branch, sessionToken) ==
  {AuthorizationHeader(sessionToken), ContentTypeJson}
    \ (IF branch = "form" THEN {ContentTypeJson} ELSE {})

\* request(), from its entry to the call of fetch: the exchange handed to the
\* transport, given the session fields read at that moment
BuildExchange(req, sessionTeam, sessionToken) ==
  LET team == EffectiveTeam(req.teamName, sessionTeam)
      processedPath == ProcessedPath(req.path, team)
      branch == PayloadBranch(req.method, req.params)
  IN  [method |-> req.method,
       url |-> baseUrl \o processedPath
               \o (IF branch = "query" THEN <<"?">> \o QueryString(req.params.entries)
                   ELSE NoQuery),
       headers |-> ExchangeHeaders(branch, sessionToken),
       body |-> CASE branch = "form" -> [kind |-> "form", content |-> req.params.entries]
                  [] branch = "json" ->
                       [kind |-> "json", content |-> JsonStringify(VObj(req.params.entries))]
                  [] OTHER -> NoBody]

\* ------------------------------------------------ handling the response
\* parseInt(response.headers.get('retry-after') || '60', 10)
RetryAfterSeconds(hdr) ==
  ParseInt(IF ~hdr.present \/ hdr.value = <<>> THEN <<"6", "0">> ELSE hdr.value)

\* variant: the delay passed in seconds, setTimeout(resolve, retryAfter)
TimerDelay_Unscaled(retryAfter) ==
  IF retryAfter.nan \/ retryAfter.n < 1 THEN 1 ELSE retryAfter.n

\* the longest delay of a timer, in milliseconds (2^31 - 1)
TIMEOUT_MAX == 2147483647
\* setTimeout(resolve, retryAfter * 1000): the delay in milliseconds after
\* which the timer fires; a delay that is NaN, below 1 or above TIMEOUT_MAX
\* fires after 1 ms
TimerDelay(retryAfter) ==
  IF retryAfter.nan \/ retryAfter.n < 1 \/ retryAfter.n > TIMEOUT_MAX \div 1000
  THEN 1 ELSE retryAfter.n * 1000
\* variant: the rate-limit test left out
IsRateLimited_Never(status) == FALSE
\* variant: server errors retried like rate limits
IsRateLimited_Or5xx(status) == status = 429 \/ status >= 500

\* branch of request() a response takes
IsRateLimited(status) == status = 429

\* variant: no branch for 204
Classify_No204(status) ==
  IF IsRateLimited(status) THEN "rateLimited"
  ELSE IF ~IsOk(status) THEN "error"
  ELSE "success"

Classify(status) ==
  IF IsRateLimited(status) THEN "rateLimited"
  ELSE IF ~IsOk(status) THEN "error"
  ELSE IF status = 204 THEN "noContent"
  ELSE "success"

Message(text) == JObj(<<<<"message", text>>>>)
FallbackMessage == "Failed to parse error response"

\* variant: the raw text of an error response never read
ErrorData_NoText(json, text) ==
  IF json.ok THEN json.value ELSE Message(FallbackMessage)
\* variant: an empty raw text kept as the message
ErrorData_EmptyTextKept(json, text) ==
  IF json.ok THEN json.value
  ELSE IF text.ok THEN Message(text.value)
  ELSE Message(FallbackMessage)
\* variant: the body of an error response always read as text
ErrorData_TextOnly(json, text) ==
  IF text.ok THEN Message(IF text.value = "" THEN FallbackMessage ELSE text.value)
  ELSE Message(FallbackMessage)

\* errorData of an error response: json(), else text() wrapped as a message,
\* else the fixed message
ErrorData(json, text) ==
  IF json.ok THEN json.value
  ELSE IF text.ok THEN Message(IF text.value = "" THEN FallbackMessage ELSE text.value)
  ELSE Message(FallbackMessage)

\* variant: a decode failure leaves data at its initial null
SuccessData_Null(json) == IF json.ok THEN json.value ELSE JNull

\* data of a successful response other than 204
SuccessData(json) == IF json.ok THEN json.value ELSE EmptyObject

\* how a call ends
Pending == [kind |-> "pending", error |-> "", status |-> 0, data |-> JNull]
Resolved(data) == [kind |-> "resolved", error |-> "", status |-> 0, data |-> data]
EsaApiError(status, data) ==
  [kind |-> "rejected", error |-> "EsaApiError", status |-> status, data |-> data]
Rethrown(error) == [kind |-> "rejected", error |-> error, status |-> 0, data |-> JNull]
\* an error thrown by the endpoint method itself, before any promise exists
Thrown(error) == [kind |-> "thrown", error |-> error, status |-> 0, data |-> JNull]

\* failures of fetch itself
TransportErrors == {"TypeError: fetch failed", "AbortError"}

\* ------------------------------------------------------------------ state
\* token: EsaClient.token; teamName: EsaClient.teamName;
\* calls: per call of request(), its arguments, locals and position;
\* optionsTeamName: options.teamName the client was constructed with;
\* lastSetTeamName: argument of the latest setTeamName, UNDEF before the first
VARIABLES token, teamName, calls, optionsTeamName, lastSetTeamName

vars == <<token, teamName, calls, optionsTeamName, lastSetTeamName>>

Tokens == {"test-token"}
Teams == {"test-team", "acme"}

\* the endpoint calls a caller makes
EndpointCalls ==
  {getTeam(UNDEF), getTeam("acme"), getPost(1, VUndef, UNDEF),
   createPost(VObj(<<<<"name", VStr(<<"New", " ", "Post">>)>>>>), UNDEF), deletePost(1, UNDEF)}

NoExchange == [method |-> "", url |-> <<>>, headers |-> {}, body |-> NoBody]
NoEmojiCall == [made |-> FALSE, teamName |-> UNDEF, sessionTeam |-> NULL]

\* a call not yet made
IdleCall ==
  [pc |-> "idle",
   req |-> Req("", <<>>, EmptyParams, UNDEF),
   exchange |-> NoExchange,     \* arguments of the latest fetch
   firstExchange |-> NoExchange, \* arguments of the first fetch
   readTeam |-> NULL,           \* this.teamName as read by the latest entry of request()
   sameTeamRead |-> TRUE,       \* every entry of request() read the same this.teamName
   setBefore |-> UNDEF,         \* lastSetTeamName when the endpoint method was invoked
   emoji |-> NoEmojiCall,       \* arguments of createEmoji, when that is the method invoked
   fetchCount |-> 0,            \* calls of fetch so far
   responses |-> <<>>,          \* statuses of the responses received so far
   fetchError |-> "",           \* rejection of fetch, if it failed
   hdr |-> NoHeader,            \* retry-after header read from the 429 response
   retryAfter |-> Num(0),       \* const retryAfter
   waitMs |-> 0,                \* delay of the pending timer
   jsonCalls |-> 0,             \* invocations of response.json()
   textCalls |-> 0,             \* invocations of response.text()
   decoded |-> NotDecoded,      \* what response.json() yielded
   rawText |-> NotRead,         \* what response.text() yielded
   outcome |-> Pending]

\* new EsaClient({token, teamName}): teamName is options.teamName || null
Init ==
  /\ token \in Tokens
  /\ optionsTeamName \in Teams \cup {UNDEF, ""}
  /\ teamName = (IF Falsy(optionsTeamName) THEN NULL ELSE optionsTeamName)
  /\ lastSetTeamName = UNDEF
  /\ calls = [c \in CallIds |-> IdleCall]

\* variant: the retry chain given up after the second exchange
EnterRequest_Capped(call, sessionTeam, sessionToken) ==
  IF call.fetchCount >= 2
  THEN [call EXCEPT !.pc = "done", !.outcome = Rethrown("Too many retries")]
  ELSE [call EXCEPT !.pc = "fetch",
                    !.exchange = BuildExchange(call.req, sessionTeam, sessionToken),
                    !.firstExchange =
                       IF call.fetchCount = 0
                       THEN BuildExchange(call.req, sessionTeam, sessionToken) ELSE @,
                    !.readTeam = sessionTeam,
                    !.sameTeamRead = @ /\ (call.fetchCount = 0 \/ call.readTeam = sessionTeam),
                    !.fetchCount = @ + 1,
                    !.hdr = NoHeader, !.retryAfter = Num(0), !.waitMs = 0]

\* variant: the retry made without the team override,
\* this.request(method, path, params)
EnterRequest_RetryWithoutTeam(call, sessionTeam, sessionToken) ==
  LET req == IF call.fetchCount = 0 THEN call.req ELSE [call.req EXCEPT !.teamName = UNDEF]
  IN  [call EXCEPT !.pc = "fetch",
                   !.exchange = BuildExchange(req, sessionTeam, sessionToken),
                   !.firstExchange =
                      IF call.fetchCount = 0
                      THEN BuildExchange(req, sessionTeam, sessionToken) ELSE @,
                   !.readTeam = sessionTeam,
                   !.sameTeamRead = @ /\ (call.fetchCount = 0 \/ call.readTeam = sessionTeam),
                   !.fetchCount = @ + 1,
                   !.hdr = NoHeader, !.retryAfter = Num(0), !.waitMs = 0]

\* request() from its entry up to the pending fetch
EnterRequest(call, sessionTeam, sessionToken) ==
  [call EXCEPT !.pc = "fetch",
               !.exchange = BuildExchange(call.req, sessionTeam, sessionToken),
               !.firstExchange =
                  IF call.fetchCount = 0
                  THEN BuildExchange(call.req, sessionTeam, sessionToken) ELSE @,
               !.readTeam = sessionTeam,
               !.sameTeamRead = @ /\ (call.fetchCount = 0 \/ call.readTeam = sessionTeam),
               !.fetchCount = @ + 1,
               !.hdr = NoHeader, !.retryAfter = Num(0), !.waitMs = 0]

\* variant: a call that was rate limited before reports the rate limit
HandleResponse_Remembers429(call, resp) ==
  LET seen == [call EXCEPT !.responses = Append(@, resp.status)]
      branch == Classify(resp.status)
      limited == \E i \in DOMAIN call.responses : call.responses[i] = 429
  IN  CASE branch = "rateLimited" ->
             [seen EXCEPT !.pc = "wait",
                          !.hdr = resp.retryAfter,
                          !.retryAfter = RetryAfterSeconds(resp.retryAfter),
                          !.waitMs = TimerDelay(RetryAfterSeconds(resp.retryAfter))]
        [] branch = "error" \/ limited ->
             [seen EXCEPT !.pc = "done",
                          !.jsonCalls = @ + 1,
                          !.decoded = resp.json,
                          !.textCalls = IF resp.json.ok THEN @ ELSE @ + 1,
                          !.rawText = IF resp.json.ok THEN @ ELSE resp.text,
                          !.outcome = EsaApiError(IF limited THEN 429 ELSE resp.status,
                                                  ErrorData(resp.json, resp.text))]
        [] branch = "noContent" ->
             [seen EXCEPT !.pc = "done", !.outcome = Resolved(JNull)]
        [] OTHER ->
             [seen EXCEPT !.pc = "done",
                          !.jsonCalls = @ + 1,
                          !.decoded = resp.json,
                          !.outcome = Resolved(SuccessData(resp.json))]

\* request() from the response of fetch up to its next suspension or its end
HandleResponse(call, resp) ==
  LET seen == [call EXCEPT !.responses = Append(@, resp.status)]
      branch == Classify(resp.status)
  IN  CASE branch = "rateLimited" ->
             [seen EXCEPT !.pc = "wait",
                          !.hdr = resp.retryAfter,
                          !.retryAfter = RetryAfterSeconds(resp.retryAfter),
                          !.waitMs = TimerDelay(RetryAfterSeconds(resp.retryAfter))]
        [] branch = "error" ->
             [seen EXCEPT !.pc = "done",
                          !.jsonCalls = @ + 1,
                          !.decoded = resp.json,
                          !.textCalls = IF resp.json.ok THEN @ ELSE @ + 1,
                          !.rawText = IF resp.json.ok THEN @ ELSE resp.text,
                          !.outcome = EsaApiError(resp.status, ErrorData(resp.json, resp.text))]
        [] branch = "noContent" ->
             [seen EXCEPT !.pc = "done", !.outcome = Resolved(JNull)]
        [] OTHER ->
             [seen EXCEPT !.pc = "done",
                          !.jsonCalls = @ + 1,
                          !.decoded = resp.json,
                          !.outcome = Resolved(SuccessData(resp.json))]

\* variant: a rejected fetch issued again
HandleFetchError_Retry(call, error) ==
  [call EXCEPT !.pc = "fetch", !.fetchCount = @ + 1]

\* the catch block of request() on a rejected fetch
HandleFetchError(call, error) ==
  [call EXCEPT !.pc = "done", !.outcome = Rethrown(error)]

\* ---------------------------------------------------------------- actions
\* setTeamName(t)
SetTeamName(t) ==
  /\ teamName' = t
  /\ lastSetTeamName' = t
  /\ UNCHANGED <<token, calls, optionsTeamName>>

\* variant: no exchange issued while some call of the client is backing off
Issue_HeldDuringBackoff(c, req) ==
  /\ calls[c].pc = "idle"
  /\ \A d \in DOMAIN calls : calls[d].pc # "wait"
  /\ calls' = [calls EXCEPT ![c] =
       EnterRequest([IdleCall EXCEPT !.req = req, !.setBefore = lastSetTeamName], teamName, token)]
  /\ UNCHANGED <<token, teamName, optionsTeamName, lastSetTeamName>>

\* a caller invokes an endpoint method
Issue(c, req) ==
  /\ calls[c].pc = "idle"
  /\ calls' = [calls EXCEPT ![c] =
       EnterRequest([IdleCall EXCEPT !.req = req, !.setBefore = lastSetTeamName], teamName, token)]
  /\ UNCHANGED <<token, teamName, optionsTeamName, lastSetTeamName>>

\* variant: createEmoji keeps the team it resolved as the session's team
CreateEmoji_StoresTeam(c, params, t) ==
  LET e == createEmoji(params, t, teamName)
      invoked == [IdleCall EXCEPT !.req = e.req, !.setBefore = lastSetTeamName,
                                  !.emoji = [made |-> TRUE, teamName |-> t, sessionTeam |-> teamName]]
  IN  /\ calls[c].pc = "idle"
      /\ calls' = [calls EXCEPT ![c] =
           IF e.throws # ""
           THEN [invoked EXCEPT !.pc = "done", !.outcome = Thrown(e.throws)]
           ELSE EnterRequest(invoked, teamName, token)]
      /\ teamName' = (IF e.throws # "" THEN teamName ELSE e.req.teamName)
      /\ UNCHANGED <<token, optionsTeamName, lastSetTeamName>>

\* a caller invokes createEmoji(params, t)
CreateEmoji(c, params, t) ==
  LET e == createEmoji(params, t, teamName)
      invoked == [IdleCall EXCEPT !.req = e.req, !.setBefore = lastSetTeamName,
                                  !.emoji = [made |-> TRUE, teamName |-> t, sessionTeam |-> teamName]]
  IN  /\ calls[c].pc = "idle"
      /\ calls' = [calls EXCEPT ![c] =
           IF e.throws # ""
           THEN [invoked EXCEPT !.pc = "done", !.outcome = Thrown(e.throws)]
           ELSE EnterRequest(invoked, teamName, token)]
      /\ UNCHANGED <<token, teamName, optionsTeamName, lastSetTeamName>>

\* the transport answers the pending fetch of call c
Respond(c, resp) ==
  /\ calls[c].pc = "fetch"
  /\ resp.status = 429 =>
       Cardinality({i \in DOMAIN calls[c].responses : calls[c].responses[i] = 429}) < MaxRateLimited
  /\ calls' = [calls EXCEPT ![c] = HandleResponse(calls[c], resp)]
  /\ UNCHANGED <<token, teamName, optionsTeamName, lastSetTeamName>>

\* the pending fetch of call c fails
TransportFail(c, error) ==
  /\ calls[c].pc = "fetch"
  /\ calls' = [calls EXCEPT ![c] = HandleFetchError([calls[c] EXCEPT !.fetchError = error], error)]
  /\ UNCHANGED <<token, teamName, optionsTeamName, lastSetTeamName>>

\* the rate-limit timer of call c fires: return this.request(method, path, params, teamName)
TimerFire(c) ==
  /\ calls[c].pc = "wait"
  /\ calls' = [calls EXCEPT ![c] = EnterRequest(calls[c], teamName, token)]
  /\ UNCHANGED <<token, teamName, optionsTeamName, lastSetTeamName>>

Next ==
  \/ \E t \in Teams : SetTeamName(t)
  \/ \E c \in DOMAIN calls, req \in EndpointCalls : Issue(c, req)
  \/ \E c \in DOMAIN calls, resp \in Responses : Respond(c, resp)
  \/ \E c \in DOMAIN calls, error \in TransportErrors : TransportFail(c, error)
  \/ \E c \in DOMAIN calls : TimerFire(c)

Spec == Init /\ [][Next]_vars

TypeOK ==
  /\ token \in Tokens
  /\ teamName \in Teams \cup {NULL}
  /\ \A c \in CallIds : calls[c].pc \in {"idle", "fetch", "wait", "done"}

\* the transport answers every exchange and every backoff timer fires
FairSpec ==
  /\ Spec
  /\ \A c \in CallIds :
       /\ WF_vars(TimerFire(c))
       /\ WF_vars((\E resp \in Responses : Respond(c, resp))
                  \/ (\E error \in TransportErrors : TransportFail(c, error)))

\* ---------------------------------------------- the endpoint methods at large
\* payloads of the calls below
PostParams ==
  VObj(<<<<"name", VStr(<<"New", " ", "Post">>)>>,
         <<"body_md", VStr(<<"#", " ", "say", " ", "\"", "hi", "\"">>)>>,
         <<"tags", VArr(<<VStr(<<"test">>), VStr(<<"a", ",", "b">>)>>)>>,
         <<"category", VUndef>>,
         <<"wip", VBool(TRUE)>>,
         <<"template_post_id", VNum(12)>>>>)
PostsQuery ==
  MapParams(<<<<"q", VStr(<<"category", ":", "general", " ", "a", "&", "b", "=", "c">>)>>,
              <<"include", VUndef>>,
              <<"sort", VStr(<<"updated">>)>>,
              <<"page", VNum(1)>>,
              <<"per_page", VNum(20)>>>>)
EmojiParams ==
  {[code |-> VStr(<<"team_emoji">>), origin_code |-> o, image |-> VStr(<<"data", ":", "image">>)] :
     o \in {VUndef, VStr(<<"smile">>)}}

\* calls of the endpoint methods covering every verb helper and payload shape
AllEndpointCalls ==
  {getTeams(VUndef), getTeams(VStr(<<"owner">>)),
   getTeam(UNDEF), getTeam("acme"),
   getMember("alice", UNDEF), getMember(":team_name", UNDEF),
   getPosts(NoParams, UNDEF), getPosts(PostsQuery, UNDEF),
   getPosts(MapParams(<<<<"q", VUndef>>, <<"page", VUndef>>>>), "acme"),
   getPost(1, VUndef, UNDEF),
   getPost(1, VStr(<<"comments", ",", "comments.stargazers">>), "acme"),
   createPost(PostParams, UNDEF),
   updatePost(1, VObj(<<<<"wip", VBool(FALSE)>>, <<"message", VUndef>>>>), "acme"),
   deletePost(1, UNDEF),
   getPostComments(1, NoParams, UNDEF),
   getPostComments(1, MapParams(<<<<"page", VNum(2)>>>>), UNDEF),
   createComment(1, VObj(<<<<"body_md", VStr(<<"LGTM">>)>>>>), UNDEF),
   starComment(5, NoParams, UNDEF),
   starComment(5, MapParams(<<<<"body", VStr(<<"nice">>)>>>>), UNDEF),
   starComment(5, MapParams(<<<<"body", VUndef>>>>), UNDEF),
   watchPost(1, "acme"),
   searchPosts(<<"in", ":", "dev", " ", "wip">>)}

\* one response of each branch of request()
BasicResponses ==
  {[status |-> 429, retryAfter |-> [present |-> TRUE, value |-> <<"1">>],
    json |-> JsonFails, text |-> TextFails],
   [status |-> 200, retryAfter |-> NoHeader, json |-> [ok |-> TRUE, value |-> SuccessBody],
    text |-> TextFails],
   [status |-> 204, retryAfter |-> NoHeader, json |-> JsonFails, text |-> TextFails],
   [status |-> 404, retryAfter |-> NoHeader, json |-> [ok |-> TRUE, value |-> NotFoundBody],
    text |-> TextFails]}

ClientNext ==
  \/ \E t \in Teams : SetTeamName(t)
  \/ \E c \in DOMAIN calls, req \in AllEndpointCalls : Issue(c, req)
  \/ \E c \in DOMAIN calls, params \in EmojiParams, t \in Teams \cup {UNDEF} :
       CreateEmoji(c, params, t)
  \/ \E c \in DOMAIN calls, resp \in BasicResponses : Respond(c, resp)
  \/ \E c \in DOMAIN calls, error \in TransportErrors : TransportFail(c, error)
  \/ \E c \in DOMAIN calls : TimerFire(c)

\* the client under every endpoint call above
ClientSpec == Init /\ [][ClientNext]_vars

\* ------------------------------------------------ two calls on one client
PairIds == {1, 2}
PairCalls == {getTeam(UNDEF), deletePost(1, UNDEF)}

\* a client on which two calls are made
PairInit ==
  /\ token \in Tokens
  /\ optionsTeamName \in Teams \cup {UNDEF, ""}
  /\ teamName = (IF Falsy(optionsTeamName) THEN NULL ELSE optionsTeamName)
  /\ lastSetTeamName = UNDEF
  /\ calls = [c \in PairIds |-> IdleCall]

PairNext ==
  \/ \E c \in DOMAIN calls, req \in PairCalls : Issue(c, req)
  \/ \E c \in DOMAIN calls, resp \in BasicResponses : Respond(c, resp)
  \/ \E c \in DOMAIN calls, error \in TransportErrors : TransportFail(c, error)
  \/ \E c \in DOMAIN calls : TimerFire(c)

PairSpec == PairInit /\ [][PairNext]_vars

\* ------------------------------------------------------------ properties
Last(seq) == seq[Len(seq)]
Count429(call) == Cardinality({i \in DOMAIN call.responses : call.responses[i] = 429})

\* the call ended on a response of the transport (every fetch was answered)
EndedByResponse(call) ==
  call.pc = "done" /\ call.responses # <<>> /\ call.fetchCount = Len(call.responses)

\* C1: a 429 response is never surfaced: no call fails with an EsaApiError of
\* status 429, and a response of status 429 never ends the call, it leaves the
\* call waiting for its retry.
C1_RateLimitNeverSurfaced ==
  \A c \in DOMAIN calls :
    LET call == calls[c]
    IN  /\ ~(call.outcome.error = "EsaApiError" /\ call.outcome.status = 429)
        /\ EndedByResponse(call) => Last(call.responses) # 429
        /\ (call.responses # <<>> /\ Last(call.responses) = 429
              /\ call.fetchCount = Len(call.responses))
             => call.pc = "wait" /\ call.outcome = Pending

C1_Witness ==
  \E c \in DOMAIN calls :
    /\ EndedByResponse(calls[c])
    /\ Count429(calls[c]) = MaxRateLimited
    /\ calls[c].outcome.error = "EsaApiError"

\* C2: every 429 response triggers exactly one re-issue: a call that has
\* received n 429 responses has made n exchanges while it waits and n+1
\* otherwise, and a call ended by a response received n 429 responses followed
\* by one response that is not 429, whose outcome it takes.
C2_OneReissuePer429 ==
  \A c \in DOMAIN calls :
    LET call == calls[c]
        n == Count429(call)
    IN  /\ call.pc = "wait" => call.fetchCount = n
        /\ call.pc \in {"fetch", "done"} => call.fetchCount = n + 1
        /\ EndedByResponse(call) =>
             /\ Len(call.responses) = n + 1
             /\ \A i \in 1..n : call.responses[i] = 429
             /\ Last(call.responses) # 429
             /\ Last(call.responses) \in 200..299 => call.outcome.kind = "resolved"
             /\ Last(call.responses) \notin 200..299 =>
                  call.outcome.error = "EsaApiError"
                  /\ call.outcome.status = Last(call.responses)
             /\ (Last(call.responses) \in {200, 201} /\ call.decoded.ok) =>
                  call.outcome.data = call.decoded.value

\* one 429 then a 200 whose body decodes: two exchanges, resolved with that body
C2_Witness ==
  \E c \in DOMAIN calls :
    /\ calls[c].pc = "done"
    /\ calls[c].responses = <<429, 200>>
    /\ calls[c].fetchCount = 2
    /\ calls[c].outcome = Resolved(SuccessBody)

\* C3: retries have no cap: under FairSpec every issued call ends, and every
\* backoff wait, whatever the number of 429 responses before it, is followed
\* by a further exchange.
C3_RunsToCompletion ==
  \A c \in CallIds :
    /\ (calls[c].pc # "idle") ~> (calls[c].pc = "done")
    /\ (calls[c].pc = "wait") ~> (calls[c].pc = "fetch")

C3_Witness ==
  \E c \in DOMAIN calls :
    /\ calls[c].pc = "done"
    /\ Count429(calls[c]) = MaxRateLimited
    /\ calls[c].fetchCount = MaxRateLimited + 1

\* C4: a response that is neither 2xx nor 429 and whose body decodes as JSON
\* makes the call fail with an EsaApiError of that status whose data is the
\* decoded body.
C4_ErrorCarriesDecodedBody ==
  \A c \in DOMAIN calls :
    LET call == calls[c]
    IN  (EndedByResponse(call)
           /\ Last(call.responses) \notin 200..299
           /\ Last(call.responses) # 429
           /\ call.decoded.ok)
          => /\ call.outcome.kind = "rejected"
             /\ call.outcome.error = "EsaApiError"
             /\ call.outcome.status = Last(call.responses)
             /\ call.outcome.data = call.decoded.value

\* 404 with {error: 'not_found', message: 'Post not found'}
C4_Witness ==
  \E c \in DOMAIN calls :
    /\ EndedByResponse(calls[c])
    /\ Last(calls[c].responses) = 404
    /\ calls[c].decoded = [ok |-> TRUE, value |-> NotFoundBody]
    /\ calls[c].outcome.data = NotFoundBody

\* C5: a failure of the transport call makes the call fail with that same
\* failure, which is not an EsaApiError, and no exchange follows it.
C5_TransportFailurePropagates ==
  \A c \in DOMAIN calls :
    LET call == calls[c]
    IN  call.fetchError # "" =>
          /\ call.pc = "done"
          /\ call.outcome.kind = "rejected"
          /\ call.outcome.error = call.fetchError
          /\ call.outcome.error # "EsaApiError"
          /\ call.fetchCount = Len(call.responses) + 1

\* a retry after a 429 fails in the transport
C5_Witness ==
  \E c \in DOMAIN calls :
    /\ calls[c].fetchError = "AbortError"
    /\ calls[c].responses = <<429>>
    /\ calls[c].pc = "done"

\* C6: an EsaApiError comes only from a response that is neither 2xx nor 429:
\* a call that failed with an EsaApiError was ended by a response whose status
\* is outside 2xx, is not 429 and is the status of the error.
C6_ApiErrorOnlyFromErrorResponse ==
  \A c \in DOMAIN calls :
    LET call == calls[c]
    IN  call.outcome.error = "EsaApiError" =>
          /\ EndedByResponse(call)
          /\ Last(call.responses) \notin 200..299
          /\ Last(call.responses) # 429
          /\ call.outcome.status = Last(call.responses)

C6_Witness ==
  \E c \in DOMAIN calls :
    /\ calls[c].outcome.error = "EsaApiError"
    /\ calls[c].outcome.status = 500
    /\ Count429(calls[c]) > 0

\* C7: a 204 response resolves the call with null, and neither json() nor
\* text() is invoked on it.
C7_NoContentNotDecoded ==
  \A c \in DOMAIN calls :
    LET call == calls[c]
    IN  (EndedByResponse(call) /\ Last(call.responses) = 204)
          => /\ call.outcome = Resolved(JNull)
             /\ call.jsonCalls = 0
             /\ call.textCalls = 0

C7_Witness ==
  \E c \in DOMAIN calls :
    /\ EndedByResponse(calls[c])
    /\ Last(calls[c].responses) = 204
    /\ calls[c].outcome.kind = "resolved"

\* C8: a 2xx response other than 204 resolves the call with the decoded body,
\* and with an empty object when decoding the body fails.
C8_SuccessDecodesOrEmptyObject ==
  \A c \in DOMAIN calls :
    LET call == calls[c]
    IN  (EndedByResponse(call)
           /\ Last(call.responses) \in 200..299
           /\ Last(call.responses) # 204)
          => /\ call.outcome.kind = "resolved"
             /\ call.jsonCalls = 1
             /\ call.decoded.ok => call.outcome.data = call.decoded.value
             /\ ~call.decoded.ok => call.outcome.data = EmptyObject

\* a 201 whose body does not decode
C8_Witness ==
  \E c \in DOMAIN calls :
    /\ EndedByResponse(calls[c])
    /\ Last(calls[c].responses) = 201
    /\ ~calls[c].decoded.ok
    /\ calls[c].outcome = Resolved(EmptyObject)

\* C9: after a 429 response without a retry-after header the call waits 60
\* seconds before its retry.
C9_DefaultWait60 ==
  \A c \in DOMAIN calls :
    (calls[c].pc = "wait" /\ ~calls[c].hdr.present) => calls[c].waitMs = 60000

C9_Witness ==
  \E c \in DOMAIN calls :
    /\ calls[c].pc = "wait"
    /\ ~calls[c].hdr.present
    /\ calls[c].waitMs = 60000

\* the header value does not start, after an optional sign, with a digit
Unparsable(value) ==
  LET u == IF value # <<>> /\ Head(value) \in {"-", "+"} THEN Tail(value) ELSE value
  IN  u = <<>> \/ ~IsDigit(Head(u))

\* C10: after a 429 response whose retry-after header cannot be parsed as an
\* integer the call waits 60 seconds before its retry.
C10_UnparsableWait60 ==
  \A c \in DOMAIN calls :
    (calls[c].pc = "wait" /\ calls[c].hdr.present /\ Unparsable(calls[c].hdr.value))
      => calls[c].waitMs = 60000

\* some exchange of the call was handed to the transport
Issued(call) == call.fetchCount > 0

\* C11: every retry re-issues the identical exchange: as long as every entry
\* of request() found the same session team, the exchange of the latest
\* attempt has the method, URL, headers and body of the first attempt.
C11_RetryIdenticalExchange ==
  \A c \in DOMAIN calls :
    LET call == calls[c]
    IN  (Issued(call) /\ call.sameTeamRead) =>
          /\ call.exchange.method = call.firstExchange.method
          /\ call.exchange.url = call.firstExchange.url
          /\ call.exchange.headers = call.firstExchange.headers
          /\ call.exchange.body = call.firstExchange.body

\* the second retry of a call made with a team override
C11_Witness ==
  \E c \in DOMAIN calls :
    /\ calls[c].fetchCount = MaxRateLimited + 1
    /\ calls[c].sameTeamRead
    /\ calls[c].req.teamName = "acme"
    /\ calls[c].readTeam # "acme"
    /\ calls[c].exchange = calls[c].firstExchange

\* C12: every exchange, the retries and the multipart exchanges included,
\* carries Authorization: Bearer <token> with the token of the client, and no
\* other Authorization header.
C12_BearerOnEveryExchange ==
  \A c \in DOMAIN calls :
    LET call == calls[c]
    IN  Issued(call) =>
          \A x \in {call.exchange, call.firstExchange} :
            /\ <<"Authorization", <<"Bearer", token>>>> \in x.headers
            /\ \A h \in x.headers : h[1] = "Authorization" => h[2] = <<"Bearer", token>>

\* the retry of a multipart exchange
C12_Witness ==
  \E c \in DOMAIN calls :
    /\ calls[c].emoji.made
    /\ calls[c].fetchCount >= 2
    /\ calls[c].exchange.body.kind = "form"
    /\ <<"Authorization", <<"Bearer", token>>>> \in calls[c].exchange.headers

\* C13: Content-Type: application/json is on every exchange whose payload is
\* not a multipart form, GET exchanges and exchanges without a body included,
\* and on no exchange whose payload is a multipart form, retries included.
C13_ContentTypeUnlessMultipart ==
  \A c \in DOMAIN calls :
    LET call == calls[c]
    IN  Issued(call) =>
          \A x \in {call.exchange, call.firstExchange} :
            /\ call.req.params.kind # "form" =>
                 <<"Content-Type", <<"application/json">>>> \in x.headers
            /\ call.req.params.kind = "form" =>
                 \A h \in x.headers : h[1] # "Content-Type"

\* the retry of a multipart exchange, without Content-Type
C13_Witness ==
  \E c \in DOMAIN calls :
    /\ calls[c].req.params.kind = "form"
    /\ calls[c].fetchCount >= 2
    /\ \A h \in calls[c].exchange.headers : h[1] # "Content-Type"

\* ---- reading a URL back, as the server's URLSearchParams does
\* the index of the first occurrence of an item, 0 when there is none
IndexOf(seq, item) ==
  IF \E i \in DOMAIN seq : seq[i] = item
  THEN CHOOSE i \in DOMAIN seq : seq[i] = item /\ \A j \in 1..(i - 1) : seq[j] # item
  ELSE 0

\* the pieces of a sequence between the occurrences of a separator
RECURSIVE SplitOn(_, _)
SplitOn(seq, sep) ==
  LET i == IndexOf(seq, sep)
  IN  IF i = 0 THEN <<seq>>
      ELSE <<SubSeq(seq, 1, i - 1)>> \o SplitOn(SubSeq(seq, i + 1, Len(seq)), sep)

\* the character a form-urlencoded token stands for
FormDecodeAtom(a) ==
  CASE a = "+" -> " "
    [] a = "%2B" -> "+"
    [] a = "%25" -> "%"
    [] a = "%26" -> "&"
    [] a = "%3D" -> "="
    [] a = "%3A" -> ":"
    [] a = "%2C" -> ","
    [] a = "%3F" -> "?"
    [] a = "%5B" -> "["
    [] a = "%5D" -> "]"
    [] OTHER -> a
FormDecode(atoms) == [i \in DOMAIN atoms |-> FormDecodeAtom(atoms[i])]

\* the part of a URL after its first "?"
QueryOf(url) ==
  LET i == IndexOf(url, "?")
  IN  IF i = 0 THEN <<>> ELSE SubSeq(url, i + 1, Len(url))

\* the parameters of a query string, in order: <<name, value>> as strings
ParseQuery(query) ==
  LET parts == SelectSeq(SplitOn(query, "&"), LAMBDA part : part # <<>>)
      Pair(part) ==
        LET i == IndexOf(part, "=")
        IN  IF i = 0 THEN <<FormDecode(part), <<>>>>
            ELSE <<FormDecode(SubSeq(part, 1, i - 1)), FormDecode(SubSeq(part, i + 1, Len(part)))>>
  IN  [k \in DOMAIN parts |-> Pair(parts[k])]

\* the entries of a mapping whose value is not undefined, each value as the
\* string it is coerced to
PresentEntries(entries) ==
  LET present == SelectSeq(entries, LAMBDA e : e[2] # VUndef)
  IN  [k \in DOMAIN present |-> <<<<present[k][1]>>, ToStr(present[k][2])>>]

\* C14: for every GET call with a non-empty parameter mapping, the query
\* string of the URL holds exactly the entries whose value is not absent, one
\* parameter per entry with the value coerced to a string, in the order of
\* the mapping; an absent entry gives no parameter; the exchange has no body.
C14_QueryHoldsPresentEntries ==
  \A c \in DOMAIN calls :
    LET call == calls[c]
    IN  (Issued(call) /\ call.req.method = "get" /\ call.req.params.kind = "map"
           /\ call.req.params.entries # <<>>) =>
          \A x \in {call.exchange, call.firstExchange} :
            /\ ParseQuery(QueryOf(x.url)) = PresentEntries(call.req.params.entries)
            /\ x.body = NoBody

\* a GET with five entries, one of them absent, issued with four parameters
C14_Witness ==
  \E c \in DOMAIN calls :
    /\ Issued(calls[c])
    /\ calls[c].req.method = "get"
    /\ Len(calls[c].req.params.entries) = 5
    /\ \E k \in 1..5 : calls[c].req.params.entries[k][2] = VUndef
    /\ Len(ParseQuery(QueryOf(calls[c].exchange.url))) = 4
    /\ calls[c].exchange.body = NoBody

\* ---- reading a JSON text back, as the server's JSON.parse does
\* the character an escaped character of a string literal stands for
JsonUnescapeAtom(a) ==
  CASE a = "\\\"" -> "\""
    [] a = "\\\\" -> "\\"
    [] OTHER -> a

\* a string literal at the head of the text: its characters and what follows
JsonParseString(text) ==
  LET close == IndexOf(Tail(text), "\"")
      inner == SubSeq(Tail(text), 1, close - 1)
  IN  [s |-> [i \in DOMAIN inner |-> JsonUnescapeAtom(inner[i])],
       rest |-> SubSeq(Tail(text), close + 1, Len(text) - 1)]

\* the value at the head of the text and what follows it
RECURSIVE JsonParseValue(_), JsonParseMembers(_, _), JsonParseItems(_, _)
JsonParseValue(text) ==
  LET h == Head(text)
  IN  CASE h = "\"" -> LET lit == JsonParseString(text)
                       IN  [v |-> VStr(lit.s), rest |-> lit.rest]
        [] h = "{" -> JsonParseMembers(Tail(text), <<>>)
        [] h = "[" -> JsonParseItems(Tail(text), <<>>)
        [] h = "true" -> [v |-> VBool(TRUE), rest |-> Tail(text)]
        [] h = "false" -> [v |-> VBool(FALSE), rest |-> Tail(text)]
        [] h = "null" -> [v |-> VNull, rest |-> Tail(text)]
        [] OTHER -> [v |-> VNum(CHOOSE n \in 0..99 : ToString(n) = h), rest |-> Tail(text)]
JsonParseMembers(text, acc) ==
  IF Head(text) = "}" THEN [v |-> VObj(acc), rest |-> Tail(text)]
  ELSE IF Head(text) = "," THEN JsonParseMembers(Tail(text), acc)
  ELSE LET key == JsonParseString(text)
           val == JsonParseValue(Tail(key.rest))
       IN  JsonParseMembers(val.rest, Append(acc, <<key.s[1], val.v>>))
JsonParseItems(text, acc) ==
  IF Head(text) = "]" THEN [v |-> VArr(acc), rest |-> Tail(text)]
  ELSE IF Head(text) = "," THEN JsonParseItems(Tail(text), acc)
  ELSE LET val == JsonParseValue(text)
       IN  JsonParseItems(val.rest, Append(acc, val.v))

\* the value a JSON text can carry of a JavaScript value: a member whose
\* value is undefined does not exist, an undefined array element is null
RECURSIVE JsonView(_)
JsonView(v) ==
  CASE v.t = "object" ->
         LET present == SelectSeq(v.entries, LAMBDA e : e[2].t # "undefined")
         IN  VObj([k \in DOMAIN present |-> <<present[k][1], JsonView(present[k][2])>>])
    [] v.t = "array" ->
         VArr([k \in DOMAIN v.items |->
                 IF v.items[k].t = "undefined" THEN VNull ELSE JsonView(v.items[k])])
    [] OTHER -> v

C16_EmptyPayloadNoBody ==
  \A c \in DOMAIN calls :
    LET call == calls[c]
    IN  (Issued(call) /\ call.req.method # "get" /\ call.req.params.kind = "map"
           /\ call.req.params.entries = <<>>) =>
          /\ call.exchange.body = NoBody
          /\ call.firstExchange.body = NoBody

\* starComment without params retried, still without a body
C16_Witness ==
  \E c \in DOMAIN calls :
    /\ calls[c].req = starComment(5, NoParams, UNDEF)
    /\ calls[c].fetchCount >= 2
    /\ calls[c].exchange.body = NoBody

\* the path request() is expected to address: the template with its
\* placeholder standing for the team, when there is one
ExpectedPath(path, team) ==
  [i \in DOMAIN path |->
     IF i = IndexOf(path, ":team_name") /\ ~Falsy(team) THEN team ELSE path[i]]

\* the team a call is expected to address, given the session team its latest
\* entry of request() read
ExpectedTeam(call) ==
  IF ~Falsy(call.req.teamName) THEN call.req.teamName
  ELSE IF ~Falsy(call.readTeam) THEN call.readTeam
  ELSE NULL

\* C17: a GET call with an empty or omitted parameter mapping issues its
\* exchange against exactly the base origin followed by the substituted path,
\* without "?" and without a query string.
C17_EmptyQueryBareUrl ==
  \A c \in DOMAIN calls :
    LET call == calls[c]
    IN  (Issued(call) /\ call.req.method = "get" /\ call.req.params.kind = "map"
           /\ call.req.params.entries = <<>>) =>
          /\ call.exchange.url = baseUrl \o ExpectedPath(call.req.path, ExpectedTeam(call))
          /\ IndexOf(call.exchange.url, "?") = 0
          /\ IndexOf(call.firstExchange.url, "?") = 0

\* getPost without include issued against .../teams/test-team/posts/1
C17_Witness ==
  \E c \in DOMAIN calls :
    /\ calls[c].req = getPost(1, VUndef, UNDEF)
    /\ Issued(calls[c])
    /\ calls[c].exchange.url = baseUrl \o <<"teams", "test-team", "posts", "1">>

\* C18: the team of a call is the override when one is provided, otherwise
\* the default team of the session, otherwise none; getTeam with the override
\* "acme" addresses /teams/acme whatever the default team is.
C18_OverrideThenSessionTeam ==
  \A c \in DOMAIN calls :
    LET call == calls[c]
        i == IndexOf(call.req.path, ":team_name")
    IN  Issued(call) =>
          /\ i > 0 =>
               call.exchange.url[i + 1] =
                 (IF ~Falsy(call.req.teamName) THEN call.req.teamName
                  ELSE IF ~Falsy(call.readTeam) THEN call.readTeam
                  ELSE ":team_name")
          /\ (call.req.method = "get" /\ call.req.path = <<"teams", ":team_name">>
                /\ call.req.teamName = "acme") =>
               call.exchange.url = baseUrl \o <<"teams", "acme">>

\* getTeam("acme") issued by a client whose default team is test-team
C18_Witness ==
  \E c \in DOMAIN calls :
    /\ calls[c].req = getTeam("acme")
    /\ Issued(calls[c])
    /\ calls[c].readTeam = "test-team"
    /\ calls[c].exchange.url = baseUrl \o <<"teams", "acme">>

\* C19: createEmoji called with neither a team override nor a default team
\* throws a configuration error itself, no promise being returned, and hands
\* no exchange to the transport.
C19_CreateEmojiNeedsTeam ==
  \A c \in DOMAIN calls :
    LET call == calls[c]
    IN  (call.emoji.made /\ Falsy(call.emoji.teamName) /\ Falsy(call.emoji.sessionTeam)) =>
          /\ call.pc = "done"
          /\ call.outcome.kind = "thrown"
          /\ call.outcome.error = "Error: Team name is required for creating emoji"
          /\ call.fetchCount = 0
          /\ call.exchange = NoExchange
          /\ call.responses = <<>>

\* createEmoji called without override on a client built without teamName
C19_Witness ==
  \E c \in DOMAIN calls :
    /\ calls[c].emoji.made
    /\ calls[c].emoji.teamName = UNDEF
    /\ calls[c].emoji.sessionTeam = NULL
    /\ calls[c].outcome.kind = "thrown"
    /\ calls[c].fetchCount = 0

\* getTeamName()
getTeamName == teamName

\* the template of the call names a team: /teams/<team>/...
TeamScoped(req) == Len(req.path) >= 2 /\ req.path[1] = "teams"

\* the caller gave no team override
NoOverride(call) ==
  IF call.emoji.made THEN Falsy(call.emoji.teamName) ELSE Falsy(call.req.teamName)

\* C20: a client built without teamName reports getTeamName() = null; after
\* any sequence of setTeamName calls getTeamName() is the argument of the
\* latest one; every call issued afterwards without an override has that team
\* in the URL of its first exchange.
C20_SetTeamNameGovernsCalls ==
  /\ (optionsTeamName = UNDEF /\ lastSetTeamName = UNDEF) => getTeamName = NULL
  /\ lastSetTeamName # UNDEF => getTeamName = lastSetTeamName
  /\ \A c \in DOMAIN calls :
       LET call == calls[c]
       IN  (Issued(call) /\ call.setBefore # UNDEF /\ NoOverride(call)
              /\ TeamScoped(call.req)) =>
             call.firstExchange.url[3] = call.setBefore

\* C21: the team of a call issued without an override is read when the call
\* is issued: every exchange of the call, the retries after a 429 included,
\* goes to the URL of the first one, whatever setTeamName does meanwhile.
C21_TeamReadAtCallStart ==
  \A c \in DOMAIN calls :
    LET call == calls[c]
    IN  (Issued(call) /\ NoOverride(call)) => call.exchange.url = call.firstExchange.url

\* C22: calls are independent under rate limiting: while one call waits out
\* a 429, any other call can issue its exchange and can be answered; a call
\* has waited only once per 429 it received itself, and fetched once more
\* than that.
C22_CallsIndependent ==
  /\ \A c \in DOMAIN calls, d \in DOMAIN calls :
       (c # d /\ calls[c].pc = "wait") =>
         /\ calls[d].pc = "idle" => \A req \in PairCalls : ENABLED Issue(d, req)
         /\ calls[d].pc = "fetch" =>
              \A resp \in {r \in BasicResponses : r.status # 429} : ENABLED Respond(d, resp)
         /\ calls[d].pc = "wait" => ENABLED TimerFire(d)
  /\ \A d \in DOMAIN calls :
       /\ Issued(calls[d]) =>
            calls[d].fetchCount = Count429(calls[d]) + (IF calls[d].pc = "wait" THEN 0 ELSE 1)
       /\ calls[d].waitMs > 0 => calls[d].pc = "wait" /\ Last(calls[d].responses) = 429

\* one call resolved by its first exchange while the other waits out its 429
C22_Witness ==
  \E c \in DOMAIN calls, d \in DOMAIN calls :
    /\ c # d
    /\ calls[c].pc = "wait" /\ calls[c].fetchCount = 1
    /\ calls[d].pc = "done" /\ calls[d].outcome.kind = "resolved"
    /\ calls[d].fetchCount = 1 /\ calls[d].responses = <<200>>

\* the header value is a non-negative decimal integer
IsInteger(value) == value # <<>> /\ \A i \in DOMAIN value : IsDigit(value[i])

\* the number a string of decimal digits denotes
RECURSIVE DecimalValue(_)
DecimalValue(value) ==
  IF value = <<>> THEN 0
  ELSE 10 * DecimalValue(SubSeq(value, 1, Len(value) - 1)) + DigitVal(value[Len(value)])

\* C23: after a 429 response whose retry-after header is an integer N the
\* call issues no exchange until a timer of N seconds has fired, and then
\* issues the retry: a further exchange of a call is issued only out of the
\* wait that follows a 429, the wait is of N seconds, and nothing but the
\* retry ends it.
C23_WaitThenRetry ==
  [][\A c \in DOMAIN calls :
       LET before == calls[c]
           after == calls'[c]
       IN  /\ (after.fetchCount > before.fetchCount /\ before.fetchCount >= 1) =>
                /\ before.pc = "wait"
                /\ Last(before.responses) = 429
                /\ after.fetchCount = before.fetchCount + 1
           /\ (before.pc = "wait" /\ after # before) =>
                /\ after.pc = "fetch"
                /\ after.fetchCount = before.fetchCount + 1
                /\ after.responses = before.responses
                /\ IsInteger(before.hdr.value) =>
                     /\ before.waitMs \div 1000 >= DecimalValue(before.hdr.value)
                     /\ DecimalValue(before.hdr.value) > 0 =>
                          /\ before.waitMs % 1000 = 0
                          /\ before.waitMs \div 1000 = DecimalValue(before.hdr.value)
           /\ (before.pc = "fetch" /\ after.responses # before.responses
                 /\ Last(after.responses) = 429) =>
                after.pc = "wait" /\ after.fetchCount = before.fetchCount
    ]_vars

C25_ErrorFallbackMessage ==
  \A c \in DOMAIN calls :
    LET call == calls[c]
    IN  (EndedByResponse(call)
           /\ Last(call.responses) \notin 200..299
           /\ Last(call.responses) # 429
           /\ ~call.decoded.ok
           /\ (~call.rawText.ok \/ call.rawText.value = ""))
          => /\ call.outcome.kind = "rejected"
             /\ call.outcome.error = "EsaApiError"
             /\ call.outcome.status = Last(call.responses)
             /\ call.outcome.data = JObj(<<<<"message", "Failed to parse error response">>>>)

\* 404 whose body is empty: json() rejects, text() gives ""
C25_Witness ==
  \E c \in DOMAIN calls :
    /\ EndedByResponse(calls[c])
    /\ Last(calls[c].responses) = 404
    /\ ~calls[c].decoded.ok
    /\ calls[c].rawText = [ok |-> TRUE, value |-> ""]
    /\ calls[c].outcome.data = JObj(<<<<"message", "Failed to parse error response">>>>)

\* the part of a URL that comes from the path of the request
PathOf(call) == SubSeq(call.exchange.url, 2, 1 + Len(call.req.path))

\* C26: when no team is resolved, an operation other than createEmoji raises
\* no error of its own: the exchange is issued, against the path with its
\* ':team_name' placeholder left as it is, and the call fails only through a
\* response or a failure of the transport.
C26_NoTeamStillIssues ==
  \A c \in DOMAIN calls :
    LET call == calls[c]
    IN  (~call.emoji.made /\ call.pc # "idle" /\ Falsy(call.req.teamName)
           /\ Falsy(call.readTeam)) =>
          /\ Issued(call)
          /\ call.exchange.url[1] = baseUrl[1]
          /\ Len(call.exchange.url) >= 1 + Len(call.req.path)
          /\ PathOf(call) = call.req.path
          /\ call.outcome.kind # "thrown"
          /\ call.outcome.kind = "rejected" => (call.responses # <<>> \/ call.fetchError # "")

\* getTeam() on a client without team, answered by the transport
C26_Witness ==
  \E c \in DOMAIN calls :
    /\ calls[c].req = getTeam(UNDEF)
    /\ calls[c].readTeam = NULL
    /\ calls[c].exchange.url = baseUrl \o <<"teams", ":team_name">>
    /\ calls[c].responses # <<>>
    /\ calls[c].pc = "done"

\* C27 as stated: when a team is resolved, no ':team_name' remains in the
\* path sent to the transport, however often the path holds it.
C27_ReplacesAll ==
  \A c \in DOMAIN calls :
    LET call == calls[c]
    IN  (Issued(call) /\ ExpectedTeam(call) # NULL) =>
          \A i \in DOMAIN PathOf(call) : PathOf(call)[i] # ":team_name"

\* C27 amended: when a team is resolved, the first ':team_name' of the path
\* is replaced by the team and every other segment, a further ':team_name'
\* included, is sent as it is.
C27_ReplacesFirstOnly ==
  \A c \in DOMAIN calls :
    LET call == calls[c]
        first == IndexOf(call.req.path, ":team_name")
    IN  (Issued(call) /\ ExpectedTeam(call) # NULL) =>
          /\ Len(PathOf(call)) = Len(call.req.path)
          /\ \A i \in DOMAIN call.req.path :
               PathOf(call)[i] = IF i = first THEN ExpectedTeam(call) ELSE call.req.path[i]

\* getMember(':team_name') on a client of team test-team
C27_Witness ==
  \E c \in DOMAIN calls :
    /\ calls[c].req = getMember(":team_name", UNDEF)
    /\ Issued(calls[c])
    /\ calls[c].exchange.url = baseUrl \o <<"teams", "test-team", "members", ":team_name">>

\* C28: every team-scoped endpoint method, searchPosts included, targets the
\* effective team: called without override on a client whose team is t (and
\* stays t during the call), the team segment of the URL is t.
C28_TeamScopedTargetsTeam ==
  \A c \in DOMAIN calls :
    LET call == calls[c]
    IN  (Issued(call) /\ NoOverride(call) /\ TeamScoped(call.req) /\ ~Falsy(call.readTeam)
           /\ call.sameTeamRead) =>
          PathOf(call)[2] = call.readTeam

\* C29: a call of request() that completes does so with exactly one of a
\* resolved result, an EsaApiError and the failure of the transport; which
\* one, and with which status, follows from the last response or failure
\* alone, whatever 429 responses came before; a completed call changes no
\* more and issues no further exchange.
C29_OneOutcomePerCall ==
  [][\A c \in DOMAIN calls :
       LET before == calls[c]
           after == calls'[c]
           last == Last(after.responses)
           resolved == after.outcome.kind = "resolved"
           apiError == after.outcome.kind = "rejected" /\ after.outcome.error = "EsaApiError"
           transport == after.outcome.kind = "rejected" /\ after.outcome.error \in TransportErrors
       IN  /\ (after.pc = "done" /\ Issued(after)) =>
                /\ (resolved /\ ~apiError /\ ~transport)
                     \/ (~resolved /\ apiError /\ ~transport)
                     \/ (~resolved /\ ~apiError /\ transport)
                /\ transport <=> after.fetchError # ""
                /\ transport => after.outcome.error = after.fetchError
                /\ after.fetchError = "" =>
                     /\ after.responses # <<>>
                     /\ resolved <=> last \in 200..299
                     /\ apiError => after.outcome.status = last /\ last # 429
                     /\ (resolved /\ last = 204) => after.outcome.data = JNull
                     /\ (resolved /\ last # 204) =>
                          after.outcome.data =
                            (IF after.decoded.ok THEN after.decoded.value ELSE JObj(<<>>))
           /\ before.pc = "done" => after = before
    ]_vars

\* a call ended by a 500 after two 429 responses
C29_Witness ==
  \E c \in DOMAIN calls :
    /\ calls[c].pc = "done"
    /\ calls[c].responses = <<429, 429, 500>>
    /\ calls[c].fetchCount = 3
    /\ calls[c].outcome.error = "EsaApiError"
    /\ calls[c].outcome.status = 500

\* C30: the token never changes; the team of the session changes only by
\* setTeamName, which leaves the token and every call as they are; no call,
\* retry or failure changes the team.
C30_OnlySetTeamNameWrites ==
  [][/\ token' = token
     /\ teamName' # teamName => (calls' = calls /\ lastSetTeamName' = teamName')
     /\ calls' # calls => teamName' = teamName
    ]_vars

\* setTeamName called, then a call failed after a retry and createEmoji threw
\* nothing: team and token are those set
C30_Witness ==
  \E c \in DOMAIN calls :
    /\ calls[c].pc = "done"
    /\ calls[c].outcome.kind = "rejected"
    /\ Count429(calls[c]) >= 1
    /\ lastSetTeamName = "acme"
    /\ optionsTeamName = "test-team"
    /\ teamName = "acme"
    /\ token = "test-token"

====
